---- MODULE Spec2Model ----
(***************************************************************************)
(* CareTag: session-gated record access.                                   *)
(*                                                                         *)
(* The model covers the access_sessions table and the client hook that     *)
(* starts and ends sessions (useAccessSession), the row policies on the    *)
(* sensitive tables, the role registry (handle_new_user,                   *)
(* promote_to_admin, demote_from_admin) with its audit log, the scan page  *)
(* that resolves a tag to a patient (processScannedId) and the doctor      *)
(* verification panel.                                                     *)
(***************************************************************************)
EXTENDS Integers, Sequences, FiniteSets, TLC

\* ---------------------------------------------------------------- bounds
MaxSessions == 2
MaxTime == 2
MaxAudit == 3
MaxRoleChanges == 1

Users == {"u1", "u2", "u3"}
Patients == {"p1", "p2"}
Tabs == {"t1", "t2"}
OneTab == "t1"

\* ------------------------------------------------------------- constants
NoUser == "anon"                 \* auth.uid() IS NULL / user?.id undefined
NullTime == 0 - 1                \* ended_at IS NULL
NullText == "NULL"               \* notes IS NULL
Undefined == "undefined"         \* optional argument not passed
FirstAdmin == "u1"               \* the account bootstrapped as admin
LegacyUser == "u3"               \* an account that may predate the signup trigger

NotesArg == {Undefined, "obs"}
RoleArg == {Undefined, "doctor", "admin"}
NameArg == {Undefined, "Dr"}

VARIABLES
  access_sessions,   \* the table, in insertion order; the index is the row id
  user_roles,        \* set of rows [user_id, role]
  auth_users,        \* ids of the accounts that exist
  profiles,          \* set of rows [id, full_name, email, verification_status]
  audit_logs,        \* sequence of rows, in insertion order
  now,               \* the clock read by now() and new Date()
  call,              \* per browser tab: the startSession call in flight
  outcome,           \* what the last completed operation returned
  txn,               \* per caller: the promote/demote transaction in flight
  patients,          \* set of rows [id, caretag_id]
  demo,              \* the scan page's demo countdown and handleDemoScanComplete in flight
  scan               \* per browser tab: the scan page's processScannedId in flight

vars == <<access_sessions, user_roles, auth_users, profiles, audit_logs, now, call, outcome,
          txn, patients, demo, scan>>

Ids == DOMAIN access_sessions

Idle == [pc |-> "idle", user |-> NoUser, patient |-> "", clean |-> TRUE, preActive |-> {}]

NoOutcome == [op |-> "none", arg |-> "", sid |-> 0, result |-> "none"]

NoTxn == [op |-> "none", target |-> NoUser]

\* ---------------------------------------------------------- tag identifiers
\* a tag identifier is a string, modelled as the sequence of its characters
Whitespace == {" "}

toUpperCaseChar(c) == CASE c = "c" -> "C" [] OTHER -> c

toUpperCase(str) == [i \in DOMAIN str |-> toUpperCaseChar(str[i])]

RECURSIVE trimStart(_)
trimStart(str) ==
  IF str # <<>> /\ Head(str) \in Whitespace THEN trimStart(Tail(str)) ELSE str

RECURSIVE trimEnd(_)
trimEnd(str) ==
  IF str # <<>> /\ str[Len(str)] \in Whitespace
    THEN trimEnd(SubSeq(str, 1, Len(str) - 1)) ELSE str

trim(str) == trimEnd(trimStart(str))

\* const scannedId = caretagId.trim().toUpperCase()
NormalizeTag(caretagId) == toUpperCase(trim(caretagId))

\* what the readers hand to processScannedId for the text they read
ScanPaths == {"qr", "nfc", "rfid", "manual"}

PathInput(path, text) ==
  CASE path = "qr" -> toUpperCase(text)
    [] path = "nfc" -> toUpperCase(text)
    [] path = "rfid" -> trim(text)
    [] path = "manual" -> trim(text)

NullTag == <<>>                  \* no expect parameter, expectedCaretagId === null

\* the readings: which reader delivered which text
ScanReads ==
  {<<"qr", <<"c", "1">>>>, <<"nfc", <<" ", "c", "1", " ">>>>,
   <<"rfid", <<"C", "2">>>>, <<"manual", <<" ", "c", "2">>>>}

\* the page's URL parameters: expect and id
PageParams ==
  {<<NullTag, Undefined>>, <<<<"c", "1">>, "p1">>, <<<<"C", "1", " ">>, "p1">>,
   <<<<"C", "2">>, Undefined>>, <<<<"C", "2">>, "p1">>}

Doctors == {"u2", "u3"}

\* the doctor signed in on the scan page
PageDoctor == "u2"

ScanIdle ==
  [pc |-> "idle", user |-> NoUser, scannedId |-> NullTag, expectedCaretagId |-> NullTag,
   expectedPatientId |-> Undefined, patient |-> Undefined, isNewPatient |-> FALSE,
   result |-> "none", processing |-> FALSE]

\* no demo scan under way: scanState is not 'demo'
DemoOff ==
  [pc |-> "off", user |-> NoUser, patient |-> Undefined, shouldFindExisting |-> FALSE]

\* generateCareTagId(): a random tag, which a patient may already carry
DemoTags == {<<"C", "9">>, <<"C", "1">>}

\* the patients the session calls refer to
Registered ==
  {[id |-> "p1", caretag_id |-> <<"C", "1">>], [id |-> "p2", caretag_id |-> <<"C", "2">>]}

Email(u) == u

\* ------------------------------------------------------ access_sessions
NewSession(_doctor_id, _patient_id) ==
  [doctor_id |-> _doctor_id, patient_id |-> _patient_id, started_at |-> now,
   ended_at |-> NullTime, status |-> "active", notes |-> NullText]

\* has_role(_user_id, _role): a row of user_roles gives the user that role
has_role(_user_id, _role) ==
  \E r \in user_roles : r.user_id = _user_id /\ r.role = _role

has_active_session_nopatient(_doctor_id, _patient_id) ==
  \E i \in Ids :
     /\ access_sessions[i].doctor_id = _doctor_id
     /\ access_sessions[i].status = "active"
     /\ (access_sessions[i].ended_at = NullTime \/ access_sessions[i].ended_at > now)

has_active_session(_doctor_id, _patient_id) ==
  \E i \in Ids :
     /\ access_sessions[i].doctor_id = _doctor_id
     /\ access_sessions[i].patient_id = _patient_id
     /\ access_sessions[i].status = "active"
     /\ (access_sessions[i].ended_at = NullTime \/ access_sessions[i].ended_at > now)

\* .update({status:'completed', ended_at: now}).eq('doctor_id', uid).eq('status','active')
CloseActiveDeleting(ss, uid, t) ==
  SelectSeq(ss, LAMBDA row : ~(row.doctor_id = uid /\ row.status = "active"))

CloseActiveAnyDoctor(ss, uid, t) ==
  [i \in DOMAIN ss |->
     IF ss[i].status = "active"
       THEN [ss[i] EXCEPT !.status = "completed", !.ended_at = t]
       ELSE ss[i]]

CloseActive(ss, uid, t) ==
  [i \in DOMAIN ss |->
     IF ss[i].doctor_id = uid /\ ss[i].status = "active"
       THEN [ss[i] EXCEPT !.status = "completed", !.ended_at = t]
       ELSE ss[i]]

\* notes || null
OrNull(x) == IF x \in {Undefined, ""} THEN NullText ELSE x

EndRowKeepingStatus(ss, uid, sessionId, notes, t) ==
  [i \in DOMAIN ss |->
     IF i = sessionId /\ ss[i].doctor_id = uid
       THEN [ss[i] EXCEPT !.ended_at = t, !.notes = OrNull(notes)]
       ELSE ss[i]]

\* .update({status:'completed', ended_at: now, notes: notes || null}).eq('id', sessionId),
\* restricted by the UPDATE policy to rows with doctor_id = auth.uid()
EndRow(ss, uid, sessionId, notes, t) ==
  [i \in DOMAIN ss |->
     IF i = sessionId /\ ss[i].doctor_id = uid
       THEN [ss[i] EXCEPT !.status = "completed", !.ended_at = t, !.notes = OrNull(notes)]
       ELSE ss[i]]

\* ----------------------------------------- policies on the sensitive tables
SensitiveTables ==
  {"medical_records", "vitals", "prescriptions", "lab_results", "emergency_records"}

medical_records_select_session_only(uid, patient_id) ==
  has_role(uid, "doctor") /\ has_active_session(uid, patient_id)

medical_records_select(uid, patient_id) ==
  \/ has_role(uid, "admin")
  \/ (has_role(uid, "doctor") /\ has_active_session(uid, patient_id))

vitals_select(uid, patient_id) ==
  \/ has_role(uid, "admin")
  \/ (has_role(uid, "doctor") /\ has_active_session(uid, patient_id))

prescriptions_select(uid, patient_id) ==
  \/ has_role(uid, "admin")
  \/ (has_role(uid, "doctor") /\ has_active_session(uid, patient_id))

lab_results_select(uid, patient_id) ==
  \/ has_role(uid, "admin")
  \/ (has_role(uid, "doctor") /\ has_active_session(uid, patient_id))

emergency_records_select(uid, patient_id) ==
  \/ has_role(uid, "admin")
  \/ (has_role(uid, "doctor") /\ has_active_session(uid, patient_id))

SelectPolicy(tb, uid, patient_id) ==
  CASE tb = "medical_records" -> medical_records_select(uid, patient_id)
    [] tb = "vitals" -> vitals_select(uid, patient_id)
    [] tb = "prescriptions" -> prescriptions_select(uid, patient_id)
    [] tb = "lab_results" -> lab_results_select(uid, patient_id)
    [] tb = "emergency_records" -> emergency_records_select(uid, patient_id)

medical_records_update(uid, doctor_id, patient_id) ==
  doctor_id = uid /\ has_active_session(uid, patient_id)

medical_records_insert(uid, doctor_id, patient_id) ==
  has_role(uid, "doctor") /\ doctor_id = uid /\ has_active_session(uid, patient_id)

vitals_insert(uid, doctor_id, patient_id) ==
  has_role(uid, "doctor") /\ has_active_session(uid, patient_id)

prescriptions_insert(uid, doctor_id, patient_id) ==
  has_role(uid, "doctor") /\ doctor_id = uid /\ has_active_session(uid, patient_id)

prescriptions_update(uid, doctor_id, patient_id) ==
  doctor_id = uid /\ has_active_session(uid, patient_id)

lab_results_insert(uid, doctor_id, patient_id) ==
  has_role(uid, "doctor") /\ has_active_session(uid, patient_id)

lab_results_update(uid, doctor_id, patient_id) ==
  has_role(uid, "doctor") /\ has_active_session(uid, patient_id)

emergency_records_insert(uid, doctor_id, patient_id) ==
  has_role(uid, "doctor") /\ has_active_session(uid, patient_id)

emergency_records_update(uid, doctor_id, patient_id) ==
  has_role(uid, "doctor") /\ has_active_session(uid, patient_id)

\* the insert and update policies the migration creates
WritePolicies ==
  {<<"medical_records", "insert">>, <<"medical_records", "update">>,
   <<"vitals", "insert">>,
   <<"prescriptions", "insert">>, <<"prescriptions", "update">>,
   <<"lab_results", "insert">>, <<"lab_results", "update">>,
   <<"emergency_records", "insert">>, <<"emergency_records", "update">>}

WritePolicy(w, uid, doctor_id, patient_id) ==
  CASE w = <<"medical_records", "insert">> -> medical_records_insert(uid, doctor_id, patient_id)
    [] w = <<"medical_records", "update">> -> medical_records_update(uid, doctor_id, patient_id)
    [] w = <<"vitals", "insert">> -> vitals_insert(uid, doctor_id, patient_id)
    [] w = <<"prescriptions", "insert">> -> prescriptions_insert(uid, doctor_id, patient_id)
    [] w = <<"prescriptions", "update">> -> prescriptions_update(uid, doctor_id, patient_id)
    [] w = <<"lab_results", "insert">> -> lab_results_insert(uid, doctor_id, patient_id)
    [] w = <<"lab_results", "update">> -> lab_results_update(uid, doctor_id, patient_id)
    [] w = <<"emergency_records", "insert">> -> emergency_records_insert(uid, doctor_id, patient_id)
    [] w = <<"emergency_records", "update">> -> emergency_records_update(uid, doctor_id, patient_id)

\* WITH CHECK of "Doctors can create sessions"
SessionInsertPolicyAnyRole(uid, row) ==
  row.doctor_id = uid

SessionInsertPolicy(uid, row) ==
  row.doctor_id = uid /\ has_role(uid, "doctor")

\* USING of "Doctors can end their own sessions"
SessionUpdatePolicy(uid, row) ==
  row.doctor_id = uid

\* USING of "Doctors can view their own sessions" or of "Admins can view all sessions"
SessionSelectPolicy(uid, row) ==
  row.doctor_id = uid \/ has_role(uid, "admin")

\* the activeSession query of useAccessSession: .maybeSingle() yields the row,
\* null when no row matches and an error when more than one row matches
ActiveRows(uid, patientId) ==
  {i \in Ids : /\ access_sessions[i].doctor_id = uid
               /\ access_sessions[i].patient_id = patientId
               /\ access_sessions[i].status = "active"
               /\ access_sessions[i].ended_at = NullTime}

activeSession(uid, patientId) ==
  IF patientId = Undefined \/ uid = NoUser THEN [kind |-> "null", id |-> 0]
  ELSE IF Cardinality(ActiveRows(uid, patientId)) > 1 THEN [kind |-> "error", id |-> 0]
  ELSE IF ActiveRows(uid, patientId) = {} THEN [kind |-> "null", id |-> 0]
  ELSE [kind |-> "row", id |-> CHOOSE i \in ActiveRows(uid, patientId) : TRUE]

hasActiveSession(uid, patientId) == activeSession(uid, patientId).kind = "row"

ActiveOf(ss, d) == {i \in DOMAIN ss : ss[i].doctor_id = d /\ ss[i].status = "active"}

\* a startSession call in flight is no longer alone once another request changes the table
Disturbed ==
  [t \in Tabs |-> IF call[t].pc = "insert" /\ access_sessions' # access_sessions
                    THEN [call[t] EXCEPT !.clean = FALSE] ELSE call[t]]

\* startSession, up to the await of the close request
StartSessionNotAuthenticated(t) ==
  /\ call[t].pc = "idle"
  /\ outcome' = [NoOutcome EXCEPT !.op = "startSession", !.result = "error"]
  /\ UNCHANGED <<access_sessions, user_roles, auth_users, profiles, audit_logs, now, call, txn, patients, demo>>

StartSessionCloseChecked(t, uid, patientId, closeOk) ==
  /\ call[t].pc = "idle"
  /\ access_sessions' = IF closeOk THEN CloseActive(access_sessions, uid, now)
                                   ELSE access_sessions
  /\ call' = IF closeOk
               THEN [Disturbed EXCEPT ![t] = [pc |-> "insert", user |-> uid,
                                              patient |-> patientId, clean |-> TRUE,
                                              preActive |-> ActiveOf(access_sessions, uid)]]
               ELSE call
  /\ outcome' = IF closeOk THEN outcome
                  ELSE [NoOutcome EXCEPT !.op = "startSession", !.result = "error"]
  /\ UNCHANGED <<user_roles, auth_users, profiles, audit_logs, now, txn, patients, demo>>

StartSessionClose(t, uid, patientId, closeOk) ==
  /\ call[t].pc = "idle"
  /\ access_sessions' = IF closeOk THEN CloseActive(access_sessions, uid, now)
                                   ELSE access_sessions
  /\ call' = [Disturbed EXCEPT ![t] = [pc |-> "insert", user |-> uid, patient |-> patientId,
                                       clean |-> TRUE,
                                       preActive |-> ActiveOf(access_sessions, uid)]]
  /\ UNCHANGED <<user_roles, auth_users, profiles, audit_logs, now, outcome, txn, patients, demo>>

\* startSession, the insert request and the return
StartSessionInsertUndoing(t, insertOk) ==
  /\ call[t].pc = "insert"
  /\ LET uid == call[t].user
         row == NewSession(uid, call[t].patient)
         ok == insertOk /\ SessionInsertPolicy(uid, row)
                        /\ Len(access_sessions) < MaxSessions
     IN /\ access_sessions' =
             IF ok THEN Append(access_sessions, row)
             ELSE [i \in Ids |-> IF i \in call[t].preActive
                                   THEN [access_sessions[i] EXCEPT !.status = "active",
                                                                   !.ended_at = NullTime]
                                   ELSE access_sessions[i]]
        /\ outcome' = [NoOutcome EXCEPT !.op = "startSession",
                                        !.result = IF ok THEN "ok" ELSE "error"]
  /\ call' = [Disturbed EXCEPT ![t] = Idle]
  /\ UNCHANGED <<user_roles, auth_users, profiles, audit_logs, now, txn, patients, demo>>

StartSessionInsert(t, insertOk) ==
  /\ call[t].pc = "insert"
  /\ LET uid == call[t].user
         row == NewSession(uid, call[t].patient)
         ok == insertOk /\ SessionInsertPolicy(uid, row)
                        /\ Len(access_sessions) < MaxSessions
     IN /\ access_sessions' = IF ok THEN Append(access_sessions, row) ELSE access_sessions
        /\ outcome' = [NoOutcome EXCEPT !.op = "startSession",
                                        !.result = IF ok THEN "ok" ELSE "error"]
  /\ call' = [Disturbed EXCEPT ![t] = Idle]
  /\ UNCHANGED <<user_roles, auth_users, profiles, audit_logs, now, txn, patients, demo>>

endSession(uid, sessionId, notes, updateOk) ==
  /\ access_sessions' = IF updateOk THEN EndRow(access_sessions, uid, sessionId, notes, now)
                                    ELSE access_sessions
  /\ outcome' = [NoOutcome EXCEPT !.op = "endSession", !.sid = sessionId,
                                  !.result = IF updateOk THEN "ok" ELSE "error"]
  /\ call' = Disturbed
  /\ UNCHANGED <<user_roles, auth_users, profiles, audit_logs, now, txn, patients, demo, scan>>

\* an INSERT on access_sessions sent by any signed-in or anonymous client:
\* the row is stored when the WITH CHECK of the insert policy accepts it
InsertSession(uid, _doctor_id, _patient_id) ==
  /\ Len(access_sessions) < MaxSessions
  /\ LET row == NewSession(_doctor_id, _patient_id)
         ok == SessionInsertPolicy(uid, row)
     IN /\ access_sessions' = IF ok THEN Append(access_sessions, row) ELSE access_sessions
        /\ outcome' = [NoOutcome EXCEPT !.op = "insertSession", !.arg = uid,
                                        !.result = IF ok THEN "ok" ELSE "error"]
  /\ call' = Disturbed
  /\ UNCHANGED <<user_roles, auth_users, profiles, audit_logs, now, txn, patients, demo, scan>>

\* the time-based transition active -> expired of the session life cycle
ExpireSession(id) ==
  /\ id \in Ids
  /\ access_sessions[id].status = "active"
  /\ access_sessions' = [access_sessions EXCEPT ![id].status = "expired"]
  /\ call' = Disturbed
  /\ outcome' = [NoOutcome EXCEPT !.op = "expire", !.result = "ok"]
  /\ UNCHANGED <<user_roles, auth_users, profiles, audit_logs, now, txn, patients, demo, scan>>

\* ------------------------------------------------------------ scan page
\* const expectedCaretagId = searchParams.get('expect')?.toUpperCase() || null
ExpectedTag(expect) == toUpperCase(expect)

\* .eq('caretag_id', scannedId).maybeSingle()
PatientsWithTagUnfiltered(tag) == patients

PatientsWithTag(tag) == {row \in patients : row.caretag_id = tag}

FreePatientIds == Patients \ {row.id : row \in patients}

\* catch, then finally { processingRef.current = false }
ScanFailedHoldingGuard(t) == [scan EXCEPT ![t].pc = "idle", ![t].result = "error"]

ScanFailed(t) ==
  [scan EXCEPT ![t].pc = "idle", ![t].result = "error", ![t].processing = FALSE]

\* processScannedId up to the first await: the guard, then the normalisation
ScanBegin(t, uid, path, text, expect, expectedId) ==
  /\ ~scan[t].processing
  /\ call[t].pc = "idle"
  /\ scan' = [scan EXCEPT ![t] =
                [pc |-> "detected", user |-> uid,
                 scannedId |-> NormalizeTag(PathInput(path, text)),
                 expectedCaretagId |-> ExpectedTag(expect),
                 expectedPatientId |-> expectedId,
                 patient |-> Undefined, isNewPatient |-> FALSE, result |-> "none",
                 processing |-> TRUE]]
  /\ demo' = IF t = OneTab /\ demo.pc = "countdown" THEN [demo EXCEPT !.pc = "off"] ELSE demo
  /\ UNCHANGED <<access_sessions, user_roles, auth_users, profiles, audit_logs, now, call,
                 outcome, txn, patients>>

\* expectedCaretagId && scannedId !== expectedCaretagId
MismatchIgnored(s) == FALSE

Mismatch(s) == s.expectedCaretagId # NullTag /\ s.scannedId # s.expectedCaretagId

\* the comparison with the expected tag, then the lookup request
ScanLookup(t, lookupOk) ==
  /\ scan[t].pc = "detected"
  /\ LET s == scan[t]
         found == PatientsWithTag(s.scannedId)
     IN scan' =
          IF Mismatch(s)
            THEN [scan EXCEPT ![t].pc = "idle", ![t].result = "mismatch",
                              ![t].processing = FALSE]
          ELSE IF s.expectedPatientId # Undefined /\ s.expectedCaretagId # NullTag
            THEN [scan EXCEPT ![t].pc = "session", ![t].patient = s.expectedPatientId]
          ELSE IF ~lookupOk \/ Cardinality(found) > 1
            THEN ScanFailed(t)
          ELSE IF found = {}
            THEN [scan EXCEPT ![t].pc = "creating", ![t].isNewPatient = TRUE]
          ELSE [scan EXCEPT ![t].pc = "session",
                            ![t].patient = (CHOOSE row \in found : TRUE).id]
  /\ UNCHANGED <<access_sessions, user_roles, auth_users, profiles, audit_logs, now, call,
                 outcome, txn, patients, demo>>

\* the insert of the new patient; the request may be rejected for any reason,
\* a uniqueness constraint on caretag_id included, and is accepted otherwise
ScanInsert(t, insertOk) ==
  /\ scan[t].pc = "creating"
  /\ FreePatientIds # {}
  /\ LET newPatient == [id |-> CHOOSE id \in FreePatientIds : TRUE,
                        caretag_id |-> scan[t].scannedId]
     IN IF insertOk
          THEN /\ patients' = patients \cup {newPatient}
               /\ scan' = [scan EXCEPT ![t].pc = "session", ![t].patient = newPatient.id]
          ELSE /\ patients' = patients
               /\ scan' = ScanFailed(t)
  /\ UNCHANGED <<access_sessions, user_roles, auth_users, profiles, audit_logs, now, call,
                 outcome, txn, demo>>

\* await startSession(patient.id): the call, then its return or its exception
ScanStartSession(t, closeOk) ==
  /\ scan[t].pc = "session"
  /\ StartSessionClose(t, scan[t].user, scan[t].patient, closeOk)
  /\ scan' = [scan EXCEPT ![t].pc = "starting"]

ScanSessionReturn(t, insertOk) ==
  /\ scan[t].pc = "starting"
  /\ StartSessionInsert(t, insertOk)
  /\ scan' = [scan EXCEPT ![t].pc = "idle", ![t].processing = FALSE,
                          ![t].result = IF outcome'.result = "ok" THEN "ok" ELSE "error"]

\* startDemoScan, or the page opened without an expected tag: scanState 'demo'
startDemoScan(uid) ==
  /\ demo.pc = "off"
  /\ scan[OneTab].pc = "idle"
  /\ demo' = [DemoOff EXCEPT !.pc = "countdown", !.user = uid]
  /\ UNCHANGED <<access_sessions, user_roles, auth_users, profiles, audit_logs, now, call,
                 outcome, txn, patients, scan>>

\* the countdown reaches zero: handleDemoScanComplete up to its first await
DemoBegin(shouldFindExisting) ==
  /\ demo.pc = "countdown"
  /\ demo' = [demo EXCEPT !.pc = "detected", !.shouldFindExisting = shouldFindExisting]
  /\ UNCHANGED <<access_sessions, user_roles, auth_users, profiles, audit_logs, now, call,
                 outcome, txn, patients, scan>>

\* .from('patients').select(..).limit(10), then a random row of the result
DemoLookup(lookupOk) ==
  /\ demo.pc = "detected"
  /\ \/ /\ ~demo.shouldFindExisting \/ (lookupOk /\ patients = {})
        /\ demo' = [demo EXCEPT !.pc = "creating"]
     \/ /\ demo.shouldFindExisting /\ ~lookupOk
        /\ demo' = [demo EXCEPT !.pc = "off"]
     \/ /\ demo.shouldFindExisting /\ lookupOk
        /\ \E randomPatient \in patients :
              demo' = [demo EXCEPT !.pc = "session", !.patient = randomPatient.id]
  /\ UNCHANGED <<access_sessions, user_roles, auth_users, profiles, audit_logs, now, call,
                 outcome, txn, patients, scan>>

\* createNewDemoPatient: the insert of generateRandomPatient()
createNewDemoPatient(tag, insertOk) ==
  /\ demo.pc = "creating"
  /\ IF insertOk /\ FreePatientIds # {}
       THEN LET newPatient == [id |-> CHOOSE id \in FreePatientIds : TRUE, caretag_id |-> tag]
            IN /\ patients' = patients \cup {newPatient}
               /\ demo' = [demo EXCEPT !.pc = "session", !.patient = newPatient.id]
       ELSE /\ patients' = patients
            /\ demo' = [demo EXCEPT !.pc = "off"]
  /\ UNCHANGED <<access_sessions, user_roles, auth_users, profiles, audit_logs, now, call,
                 outcome, txn, scan>>

\* await startSession(patient.id) of the demo scan: the close request
DemoStartSession(closeOk) ==
  /\ demo.pc = "session"
  /\ access_sessions' = IF closeOk THEN CloseActive(access_sessions, demo.user, now)
                                   ELSE access_sessions
  /\ call' = Disturbed
  /\ demo' = [demo EXCEPT !.pc = "starting"]
  /\ UNCHANGED <<user_roles, auth_users, profiles, audit_logs, now, outcome, txn, patients,
                 scan>>

\* the insert request of that call and its return, then the navigation
DemoSessionReturn(insertOk) ==
  /\ demo.pc = "starting"
  /\ LET row == NewSession(demo.user, demo.patient)
         ok == insertOk /\ SessionInsertPolicy(demo.user, row)
                        /\ Len(access_sessions) < MaxSessions
     IN /\ access_sessions' = IF ok THEN Append(access_sessions, row) ELSE access_sessions
        /\ outcome' = [NoOutcome EXCEPT !.op = "startSession",
                                        !.result = IF ok THEN "ok" ELSE "error"]
  /\ call' = Disturbed
  /\ demo' = [demo EXCEPT !.pc = "off"]
  /\ UNCHANGED <<user_roles, auth_users, profiles, audit_logs, now, txn, patients, scan>>

\* ------------------------------------------------------- role registry
\* COALESCE(NewUser.raw_user_meta_data ->> 'full_name', NewUser.email)
Coalesce(a, b) == IF a = Undefined THEN b ELSE a

\* handle_new_user: the rows the trigger inserts for the new account NewUser
handle_new_user_profile(NewUser) ==
  [id |-> NewUser.id, full_name |-> Coalesce(NewUser.raw_user_meta_data.full_name, NewUser.email),
   email |-> NewUser.email, verification_status |-> NullText]

handle_new_user_role_from_metadata(NewUser) ==
  [user_id |-> NewUser.id, role |-> Coalesce(NewUser.raw_user_meta_data.role, "doctor")]

handle_new_user_role(NewUser) ==
  [user_id |-> NewUser.id, role |-> "doctor"]

SignUp(id, meta) ==
  /\ id \notin auth_users
  /\ LET NewUser == [id |-> id, email |-> Email(id), raw_user_meta_data |-> meta]
     IN /\ auth_users' = auth_users \cup {id}
        /\ profiles' = profiles \cup {handle_new_user_profile(NewUser)}
        /\ user_roles' = user_roles \cup {handle_new_user_role(NewUser)}
  /\ outcome' = [NoOutcome EXCEPT !.op = "signUp", !.arg = meta.role, !.result = "ok"]
  /\ UNCHANGED <<access_sessions, audit_logs, now, call, txn, patients, demo, scan>>

\* UPDATE user_roles SET role = 'admin' WHERE user_id = _user_id;
\* IF NOT FOUND THEN INSERT INTO user_roles VALUES (_user_id, 'admin')
PromoteRolesInsertOnly(roles, _user_id) ==
  roles \cup {[user_id |-> _user_id, role |-> "admin"]}

PromoteRoles(roles, _user_id) ==
  IF \E r \in roles : r.user_id = _user_id
    THEN {IF r.user_id = _user_id THEN [r EXCEPT !.role = "admin"] ELSE r : r \in roles}
    ELSE roles \cup {[user_id |-> _user_id, role |-> "admin"]}

\* UPDATE user_roles SET role = 'doctor' WHERE user_id = _user_id AND role = 'admin'
DemoteRolesUpsert(roles, _user_id) ==
  IF \E r \in roles : r.user_id = _user_id
    THEN {IF r.user_id = _user_id THEN [r EXCEPT !.role = "doctor"] ELSE r : r \in roles}
    ELSE roles \cup {[user_id |-> _user_id, role |-> "doctor"]}

DemoteRoles(roles, _user_id) ==
  {IF r.user_id = _user_id /\ r.role = "admin" THEN [r EXCEPT !.role = "doctor"] ELSE r
     : r \in roles}

AuditRow(uid, action, _user_id) ==
  [user_id |-> uid, action |-> action, entity_type |-> "user_roles",
   entity_id |-> _user_id, details |-> [target |-> _user_id, by |-> uid, at |-> now]]

PromoteAllowedAnyone(uid) == TRUE

PromoteAllowed(uid) == has_role(uid, "admin")

promote_to_admin(uid, _user_id) ==
  /\ Len(audit_logs) < MaxAudit
  /\ IF ~PromoteAllowed(uid)
       THEN /\ outcome' = [NoOutcome EXCEPT !.op = "promote", !.arg = _user_id, !.result = "forbidden"]
            /\ UNCHANGED <<user_roles, audit_logs>>
       ELSE /\ user_roles' = PromoteRoles(user_roles, _user_id)
            /\ audit_logs' = Append(audit_logs, AuditRow(uid, "PROMOTE_TO_ADMIN", _user_id))
            /\ outcome' = [NoOutcome EXCEPT !.op = "promote", !.arg = _user_id, !.result = "ok"]
  /\ UNCHANGED <<access_sessions, auth_users, profiles, now, call, txn, patients, demo, scan>>

\* IF _user_id = auth.uid() THEN RAISE EXCEPTION 'Cannot demote yourself'
SelfDemotionNever(uid, _user_id) == FALSE

SelfDemotion(uid, _user_id) == _user_id = uid

demote_from_admin(uid, _user_id) ==
  /\ Len(audit_logs) < MaxAudit
  /\ IF ~has_role(uid, "admin")
       THEN /\ outcome' = [NoOutcome EXCEPT !.op = "demote", !.arg = _user_id, !.result = "forbidden"]
            /\ UNCHANGED <<user_roles, audit_logs>>
       ELSE IF SelfDemotion(uid, _user_id)
       THEN /\ outcome' = [NoOutcome EXCEPT !.op = "demote", !.arg = _user_id, !.result = "invalid"]
            /\ UNCHANGED <<user_roles, audit_logs>>
       ELSE /\ user_roles' = DemoteRoles(user_roles, _user_id)
            /\ audit_logs' = Append(audit_logs, AuditRow(uid, "DEMOTE_FROM_ADMIN", _user_id))
            /\ outcome' = [NoOutcome EXCEPT !.op = "demote", !.arg = _user_id, !.result = "ok"]
  /\ UNCHANGED <<access_sessions, auth_users, profiles, now, call, txn, patients, demo, scan>>

\* ------------------------------------------------- doctor verification
\* action: `doctor_verification_${status}`
VerificationAction(status) ==
  IF status = "verified" THEN "doctor_verification_verified"
                         ELSE "doctor_verification_rejected"

\* supabase.from('audit_logs').insert({...})
VerificationLogOverwriting(log, row) ==
  IF log = <<>> THEN <<row>> ELSE [log EXCEPT ![Len(log)] = row]

VerificationLog(log, row) == Append(log, row)

\* updateVerificationMutation: the update of the profile, then the audit insert,
\* whose result is not inspected
updateVerification(uid, doctorId, status, reason, updateOk, insertOk) ==
  /\ Len(audit_logs) < MaxAudit
  /\ IF ~updateOk
       THEN /\ outcome' = [NoOutcome EXCEPT !.op = "verification", !.arg = doctorId,
                                            !.result = "error"]
            /\ UNCHANGED <<profiles, audit_logs>>
       ELSE /\ profiles' = {IF row.id = doctorId
                              THEN [row EXCEPT !.verification_status = status] ELSE row
                              : row \in profiles}
            /\ audit_logs' =
                 IF insertOk
                   THEN VerificationLog(audit_logs,
                          [user_id |-> uid, action |-> VerificationAction(status),
                           entity_type |-> "profile", entity_id |-> doctorId,
                           details |-> [status |-> status, reason |-> reason]])
                   ELSE audit_logs
            /\ outcome' = [NoOutcome EXCEPT !.op = "verification", !.arg = doctorId,
                                            !.result = "ok"]
  /\ UNCHANGED <<access_sessions, user_roles, auth_users, now, call, txn, patients, demo, scan>>

\* handleVerify and handleReject
VerificationArgs == {<<"verified", Undefined>>, <<"rejected", "reason">>}

\* Two calls of the role functions run as two transactions (READ COMMITTED): the IF
\* tests of one read the committed rows, then its UPDATE and INSERT commit together,
\* and the other transaction may commit in between.
demote_from_admin_checks(uid, _user_id) ==
  /\ txn[uid] = NoTxn
  /\ IF ~has_role(uid, "admin")
       THEN /\ outcome' = [NoOutcome EXCEPT !.op = "demote", !.arg = _user_id, !.result = "forbidden"]
            /\ UNCHANGED txn
       ELSE IF SelfDemotion(uid, _user_id)
       THEN /\ outcome' = [NoOutcome EXCEPT !.op = "demote", !.arg = _user_id, !.result = "invalid"]
            /\ UNCHANGED txn
       ELSE /\ txn' = [txn EXCEPT ![uid] = [op |-> "demote", target |-> _user_id]]
            /\ UNCHANGED outcome
  /\ UNCHANGED <<access_sessions, user_roles, auth_users, profiles, audit_logs, now, call,
                 patients, demo, scan>>

demote_from_admin_writes(uid) ==
  /\ txn[uid].op = "demote"
  /\ Len(audit_logs) < MaxAudit
  /\ user_roles' = DemoteRoles(user_roles, txn[uid].target)
  /\ audit_logs' = Append(audit_logs, AuditRow(uid, "DEMOTE_FROM_ADMIN", txn[uid].target))
  /\ outcome' = [NoOutcome EXCEPT !.op = "demote", !.arg = txn[uid].target, !.result = "ok"]
  /\ txn' = [txn EXCEPT ![uid] = NoTxn]
  /\ UNCHANGED <<access_sessions, auth_users, profiles, now, call, patients, demo, scan>>

promote_to_admin_checks(uid, _user_id) ==
  /\ txn[uid] = NoTxn
  /\ IF ~PromoteAllowed(uid)
       THEN /\ outcome' = [NoOutcome EXCEPT !.op = "promote", !.arg = _user_id, !.result = "forbidden"]
            /\ UNCHANGED txn
       ELSE /\ txn' = [txn EXCEPT ![uid] = [op |-> "promote", target |-> _user_id]]
            /\ UNCHANGED outcome
  /\ UNCHANGED <<access_sessions, user_roles, auth_users, profiles, audit_logs, now, call,
                 patients, demo, scan>>

promote_to_admin_writes(uid) ==
  /\ txn[uid].op = "promote"
  /\ Len(audit_logs) < MaxAudit
  /\ user_roles' = PromoteRoles(user_roles, txn[uid].target)
  /\ audit_logs' = Append(audit_logs, AuditRow(uid, "PROMOTE_TO_ADMIN", txn[uid].target))
  /\ outcome' = [NoOutcome EXCEPT !.op = "promote", !.arg = txn[uid].target, !.result = "ok"]
  /\ txn' = [txn EXCEPT ![uid] = NoTxn]
  /\ UNCHANGED <<access_sessions, auth_users, profiles, now, call, patients, demo, scan>>

Tick ==
  /\ now < MaxTime
  /\ now' = now + 1
  /\ UNCHANGED <<access_sessions, user_roles, auth_users, profiles, audit_logs, call, outcome, txn, patients, demo, scan>>

Init ==
  /\ access_sessions = <<>>
  /\ user_roles = {[user_id |-> FirstAdmin, role |-> "admin"]}
  /\ \E legacy \in SUBSET {LegacyUser} :
        /\ auth_users = {FirstAdmin} \cup legacy
        /\ profiles = {[id |-> u, full_name |-> Email(u), email |-> Email(u), verification_status |-> NullText]
                         : u \in {FirstAdmin} \cup legacy}
  /\ audit_logs = <<>>
  /\ now = 1
  /\ call = [t \in Tabs |-> Idle]
  /\ outcome = NoOutcome
  /\ txn = [u \in Users |-> NoTxn]
  /\ patients = Registered
  /\ demo = DemoOff
  /\ scan = [t \in Tabs |-> ScanIdle]

\* the accounts exist: one admin and the doctors who scan
InitSessions ==
  /\ access_sessions = <<>>
  /\ auth_users = Users
  /\ user_roles = {[user_id |-> u, role |-> IF u = FirstAdmin THEN "admin" ELSE "doctor"]
                     : u \in Users}
  /\ profiles = {[id |-> u, full_name |-> Email(u), email |-> Email(u), verification_status |-> NullText] : u \in Users}
  /\ audit_logs = <<>>
  /\ now = 1
  /\ call = [t \in Tabs |-> Idle]
  /\ outcome = NoOutcome
  /\ txn = [u \in Users |-> NoTxn]
  /\ patients = Registered
  /\ demo = DemoOff
  /\ scan = [t \in Tabs |-> ScanIdle]

\* the doctors exist; the patient of tag C1 may be registered already
InitScan ==
  /\ access_sessions = <<>>
  /\ auth_users = Users
  /\ user_roles = {[user_id |-> u, role |-> IF u = FirstAdmin THEN "admin" ELSE "doctor"]
                     : u \in Users}
  /\ profiles = {[id |-> u, full_name |-> Email(u), email |-> Email(u), verification_status |-> NullText] : u \in Users}
  /\ audit_logs = <<>>
  /\ now = 1
  /\ call = [t \in Tabs |-> Idle]
  /\ outcome = NoOutcome
  /\ txn = [u \in Users |-> NoTxn]
  /\ patients \in {{}, {[id |-> "p1", caretag_id |-> <<"C", "1">>]}}
  /\ demo = DemoOff
  /\ scan = [t \in Tabs |-> ScanIdle]

\* the calls one doctor's page issues one after the other
NextSessions ==
  \/ StartSessionNotAuthenticated(OneTab) /\ UNCHANGED scan
  \/ \E uid \in Users, p \in Patients, ok \in BOOLEAN : StartSessionClose(OneTab, uid, p, ok) /\ UNCHANGED scan
  \/ \E ok \in BOOLEAN : StartSessionInsert(OneTab, ok) /\ UNCHANGED scan
  \/ \E uid \in Users, id \in 1..MaxSessions, n \in NotesArg, ok \in BOOLEAN :
        endSession(uid, id, n, ok)
  \/ Tick

\* the same calls with an expiry policy at work
NextExpiry ==
  \/ \E uid \in Users, p \in Patients, ok \in BOOLEAN : StartSessionClose(OneTab, uid, p, ok) /\ UNCHANGED scan
  \/ \E ok \in BOOLEAN : StartSessionInsert(OneTab, ok) /\ UNCHANGED scan
  \/ \E uid \in Users, id \in 1..MaxSessions, n \in NotesArg, ok \in BOOLEAN :
        endSession(uid, id, n, ok)
  \/ \E id \in 1..MaxSessions : ExpireSession(id)
  \/ Tick

\* two pages open at once: their requests interleave at every await
NextConcurrent ==
  \/ \E t \in Tabs : StartSessionNotAuthenticated(t) /\ UNCHANGED scan
  \/ \E t \in Tabs, uid \in Users, p \in Patients, ok \in BOOLEAN : StartSessionClose(t, uid, p, ok) /\ UNCHANGED scan
  \/ \E t \in Tabs, ok \in BOOLEAN : StartSessionInsert(t, ok) /\ UNCHANGED scan
  \/ \E uid \in Users, id \in 1..MaxSessions : endSession(uid, id, Undefined, TRUE)
  \/ Tick

\* sessions while an admin changes roles; every request reaches the server
NextAccess ==
  \/ \E uid \in Users, p \in Patients : StartSessionClose(OneTab, uid, p, TRUE) /\ UNCHANGED scan
  \/ StartSessionInsert(OneTab, TRUE) /\ UNCHANGED scan
  \/ \E uid \in Users, id \in 1..MaxSessions : endSession(uid, id, Undefined, TRUE)
  \/ \E uid \in Users, target \in auth_users :
        Len(audit_logs) < MaxRoleChanges /\ promote_to_admin(uid, target)
  \/ \E uid \in Users, target \in auth_users :
        Len(audit_logs) < MaxRoleChanges /\ demote_from_admin(uid, target)

\* requests on access_sessions from any client while an admin changes roles
NextPolicies ==
  \/ \E uid \in Users \cup {NoUser}, d \in Users, p \in Patients : InsertSession(uid, d, p)
  \/ \E uid \in Users \cup {NoUser}, id \in 1..MaxSessions : endSession(uid, id, Undefined, TRUE)
  \/ \E uid \in Users, target \in auth_users :
        Len(audit_logs) < MaxRoleChanges /\ promote_to_admin(uid, target)
  \/ \E uid \in Users, target \in auth_users :
        Len(audit_logs) < MaxRoleChanges /\ demote_from_admin(uid, target)

\* the doctors' calls to startSession and endSession, every request free to
\* fail, with sessions expiring in between
NextStart ==
  \/ \E uid \in Doctors, p \in Patients, ok \in BOOLEAN :
        StartSessionClose(OneTab, uid, p, ok) /\ UNCHANGED scan
  \/ \E ok \in BOOLEAN : StartSessionInsert(OneTab, ok) /\ UNCHANGED scan
  \/ \E uid \in Doctors, id \in 1..MaxSessions, n \in NotesArg : endSession(uid, id, n, TRUE)
  \/ \E id \in 1..MaxSessions : ExpireSession(id)

\* the doctors' calls as time passes
NextClock ==
  \/ \E uid \in Doctors, p \in Patients, ok \in BOOLEAN :
        StartSessionClose(OneTab, uid, p, ok) /\ UNCHANGED scan
  \/ \E ok \in BOOLEAN : StartSessionInsert(OneTab, ok) /\ UNCHANGED scan
  \/ \E uid \in Doctors, id \in 1..MaxSessions : endSession(uid, id, Undefined, TRUE)
  \/ Tick

\* one scan page opened without an expected tag: the demo scan and the readers
NextScanPage ==
  \/ startDemoScan(PageDoctor)
  \/ \E b \in BOOLEAN : DemoBegin(b)
  \/ \E ok \in BOOLEAN : DemoLookup(ok)
  \/ \E tag \in DemoTags, ok \in BOOLEAN : createNewDemoPatient(tag, ok)
  \/ \E ok \in BOOLEAN : DemoStartSession(ok)
  \/ \E ok \in BOOLEAN : DemoSessionReturn(ok)
  \/ \E read \in ScanReads :
        ScanBegin(OneTab, PageDoctor, read[1], read[2], NullTag, Undefined)
  \/ \E ok \in BOOLEAN : ScanLookup(OneTab, ok)
  \/ \E ok \in BOOLEAN : ScanInsert(OneTab, ok)
  \/ \E ok \in BOOLEAN : ScanStartSession(OneTab, ok)
  \/ \E ok \in BOOLEAN : ScanSessionReturn(OneTab, ok)

\* one doctor's scan page, scan after scan
NextGuard ==
  \/ \E read \in ScanReads, params \in PageParams :
        ScanBegin(OneTab, PageDoctor, read[1], read[2], params[1], params[2])
  \/ \E ok \in BOOLEAN : ScanLookup(OneTab, ok)
  \/ \E ok \in BOOLEAN : ScanInsert(OneTab, ok)
  \/ \E ok \in BOOLEAN : ScanStartSession(OneTab, ok)
  \/ \E ok \in BOOLEAN : ScanSessionReturn(OneTab, ok)

\* every await of an invocation settles: the timers fire and each request
\* resolves or rejects
FairGuard ==
  /\ WF_vars(\E ok \in BOOLEAN : ScanLookup(OneTab, ok))
  /\ WF_vars(\E ok \in BOOLEAN : ScanInsert(OneTab, ok))
  /\ WF_vars(\E ok \in BOOLEAN : ScanStartSession(OneTab, ok))
  /\ WF_vars(\E ok \in BOOLEAN : ScanSessionReturn(OneTab, ok))

NextRoles ==
  \/ \E id \in Users, n \in NameArg, r \in RoleArg : SignUp(id, [full_name |-> n, role |-> r])
  \/ \E uid \in Users \cup {NoUser}, target \in auth_users : promote_to_admin(uid, target)
  \/ \E uid \in Users \cup {NoUser}, target \in auth_users : demote_from_admin(uid, target)
  \/ Tick

\* the role functions called by several callers at once
NextRolesConcurrent ==
  \/ \E id \in Users : SignUp(id, [full_name |-> Undefined, role |-> Undefined])
  \/ \E uid \in Users, target \in auth_users : promote_to_admin_checks(uid, target)
  \/ \E uid \in Users : promote_to_admin_writes(uid)
  \/ \E uid \in Users, target \in auth_users : demote_from_admin_checks(uid, target)
  \/ \E uid \in Users : demote_from_admin_writes(uid)

\* one scan page: every reader, with and without an expected patient
NextScan ==
  \/ \E uid \in Users, read \in ScanReads, params \in PageParams :
        ScanBegin(OneTab, uid, read[1], read[2], params[1], params[2])
  \/ \E ok \in BOOLEAN : ScanLookup(OneTab, ok)
  \/ \E ok \in BOOLEAN : ScanInsert(OneTab, ok)
  \/ \E ok \in BOOLEAN : ScanStartSession(OneTab, ok)
  \/ \E ok \in BOOLEAN : ScanSessionReturn(OneTab, ok)
  \/ \E uid \in Users, id \in 1..MaxSessions : endSession(uid, id, Undefined, TRUE)

\* two scan pages open at once, no expected patient; only the patient insert may fail
NextScanConcurrent ==
  \/ \E t \in Tabs, uid \in Doctors, read \in ScanReads :
        ScanBegin(t, uid, read[1], read[2], NullTag, Undefined)
  \/ \E t \in Tabs : ScanLookup(t, TRUE)
  \/ \E t \in Tabs, ok \in BOOLEAN : ScanInsert(t, ok)
  \/ \E t \in Tabs : ScanStartSession(t, TRUE)
  \/ \E t \in Tabs : ScanSessionReturn(t, TRUE)

\* the admin pages: role changes and doctor verification
NextAudit ==
  \/ \E uid \in Users, target \in auth_users : promote_to_admin(uid, target)
  \/ \E uid \in Users, target \in auth_users : demote_from_admin(uid, target)
  \/ \E uid \in Users \cup {Undefined}, doctorId \in auth_users, a \in VerificationArgs,
        updateOk, insertOk \in BOOLEAN :
        updateVerification(uid, doctorId, a[1], a[2], updateOk, insertOk)

Next == NextRoles

Spec == Init /\ [][Next]_vars

SpecSessions == InitSessions /\ [][NextSessions]_vars

SpecConcurrent == InitSessions /\ [][NextConcurrent]_vars

SpecAccess == InitSessions /\ [][NextAccess]_vars

SpecExpiry == InitSessions /\ [][NextExpiry]_vars

SpecAudit == Init /\ [][NextAudit]_vars

SpecScan == InitScan /\ [][NextScan]_vars

SpecScanConcurrent == InitScan /\ [][NextScanConcurrent]_vars

SpecRolesConcurrent == Init /\ [][NextRolesConcurrent]_vars

SpecPolicies == InitSessions /\ [][NextPolicies]_vars

SpecStart == InitSessions /\ [][NextStart]_vars

SpecClock == InitSessions /\ [][NextClock]_vars

SpecScanPage == InitScan /\ [][NextScanPage]_vars

SpecGuard == InitScan /\ [][NextGuard]_vars /\ FairGuard

\* ================================================================ claims
Usable(row) ==
  row.status = "active" /\ (row.ended_at = NullTime \/ row.ended_at > now)

RolesOf(roles, u) == {r.role : r \in {x \in roles : x.user_id = u}}

\* C1: for every doctor D, in every reachable state, at most one session has
\* doctor = D and status = active, also when two startSession calls of D interleave.
C1_AtMostOneActivePerDoctor ==
  \A d \in Users : Cardinality(ActiveOf(access_sessions, d)) <= 1

\* C2: a startSession(D, P) that returns successfully and ran alone, while D had an
\* active session with another patient, leaves D with exactly one active session, the
\* new one for P with no end timestamp; every session of D that was active before is
\* completed with an end timestamp.
C2_StartSupersedes ==
  [][\A t \in Tabs :
       ( /\ call[t].pc = "insert"
         /\ call'[t].pc = "idle"
         /\ Len(access_sessions') = Len(access_sessions) + 1
         /\ call[t].clean
         /\ \E i \in call[t].preActive : access_sessions[i].patient_id # call[t].patient )
       => LET new == Len(access_sessions')
          IN /\ ActiveOf(access_sessions', call[t].user) = {new}
             /\ access_sessions'[new].patient_id = call[t].patient
             /\ access_sessions'[new].ended_at = NullTime
             /\ \A i \in call[t].preActive :
                   /\ access_sessions'[i].status = "completed"
                   /\ access_sessions'[i].ended_at # NullTime]_vars

\* C3: a user with role doctor may read a patient's sensitive records if and only if
\* a session of that doctor with that patient is active with its end timestamp null
\* or in the future; the read is allowed right after startSession succeeds and the
\* session stops counting once endSession or a later startSession closes it.
C3_ReadIff ==
  \A u \in Users, p \in Patients, tb \in SensitiveTables :
     (RolesOf(user_roles, u) = {"doctor"})
       => (SelectPolicy(tb, u, p)
             <=> \E i \in Ids : /\ access_sessions[i].doctor_id = u
                                /\ access_sessions[i].patient_id = p
                                /\ Usable(access_sessions[i]))

C3_Step ==
  /\ \A t \in Tabs, u \in Users, p \in Patients :
       ( /\ call[t].pc = "insert" /\ call[t].user = u /\ call[t].patient = p
         /\ Len(access_sessions') = Len(access_sessions) + 1
         /\ RolesOf(user_roles, u) = {"doctor"} )
       => \A tb \in SensitiveTables : SelectPolicy(tb, u, p)'
  /\ \A i \in Ids :
       (access_sessions[i].status = "active" /\ access_sessions'[i].status # "active")
       => ~Usable(access_sessions[i])'

C3_DoctorReadsIffSession == []C3_ReadIff /\ [][C3_Step]_vars

C3_Witness ==
  \E u \in Users, p, q \in Patients :
     /\ RolesOf(user_roles, u) = {"doctor"}
     /\ medical_records_select(u, p)
     /\ ~medical_records_select(u, q)
     /\ \E i \in Ids : /\ access_sessions[i].doctor_id = u
                       /\ access_sessions[i].patient_id = q
                       /\ access_sessions[i].status = "completed"

\* C4: an admin may read every sensitive record of every patient in every reachable
\* state, whatever access_sessions holds.
C4_AdminAlwaysReads ==
  \A u \in Users : has_role(u, "admin")
     => \A tb \in SensitiveTables, p \in Patients : SelectPolicy(tb, u, p)

C4_Witness ==
  \E u, d \in Users, p \in Patients :
     /\ has_role(u, "admin")
     /\ d # u
     /\ has_active_session(d, p)
     /\ ~has_active_session(u, p)
     /\ \E i \in Ids : access_sessions[i].doctor_id = u /\ access_sessions[i].status = "completed"
     /\ \A tb \in SensitiveTables : SelectPolicy(tb, u, p)

\* C5: an insert or update of a sensitive record of patient P by user U is allowed if
\* and only if U has role doctor, the record's doctor-owner field equals U and a usable
\* session exists for (U, P), for every insert and update policy.
C5_WriteIffDoctorOwnerSession ==
  \A w \in WritePolicies, u \in Users, owner \in Users, p \in Patients :
     WritePolicy(w, u, owner, p)
       <=> (has_role(u, "doctor") /\ owner = u /\ has_active_session(u, p))

\* C6: a second endSession on the session id a first endSession has just completed
\* succeeds and changes nothing: status, end timestamp and notes stay those the first
\* call set.
C6_EndSessionIdempotent ==
  [][\A uid \in Users, id \in 1..MaxSessions, n \in NotesArg :
       ( /\ outcome = [NoOutcome EXCEPT !.op = "endSession", !.sid = id, !.result = "ok"]
         /\ id \in Ids
         /\ access_sessions[id].status = "completed"
         /\ endSession(uid, id, n, TRUE) )
       => /\ access_sessions' = access_sessions
          /\ outcome'.result = "ok"]_vars

\* C7: once a session is completed or expired no operation changes its status again.
C7_StatusMonotone ==
  [][\A i \in Ids :
       access_sessions[i].status \in {"completed", "expired"}
       => access_sessions'[i].status = access_sessions[i].status]_vars

\* C8: the client query returns a session for (doctor, patient) exactly when the
\* server predicate has_active_session(doctor, patient) is true.
C8_ClientQueryMatchesServer ==
  \A u \in Users, p \in Patients : hasActiveSession(u, p) <=> has_active_session(u, p)

\* C9: account creation stores role doctor for the new user whatever metadata the
\* client sent: any two payloads give the same role rows.
C9_SignUpAlwaysDoctor ==
  [][\A id \in Users, n \in NameArg, r \in RoleArg :
       SignUp(id, [full_name |-> n, role |-> r])
       => /\ user_roles' = user_roles \cup {[user_id |-> id, role |-> "doctor"]}
          /\ RolesOf(user_roles', id) = {"doctor"}]_vars

C9_Witness ==
  /\ outcome.op = "signUp"
  /\ outcome.arg = "admin"
  /\ \E u \in auth_users : u # FirstAdmin /\ RolesOf(user_roles, u) = {"doctor"}
  /\ \A u \in auth_users \ {FirstAdmin} : ~has_role(u, "admin")

\* C10: promote by a caller who is not admin fails and leaves user_roles and
\* audit_logs unchanged; by an admin it makes the target admin, with or without a
\* role row before, and appends exactly one audit entry naming caller and target.
C10_Promote ==
  [][\A uid \in Users \cup {NoUser}, target \in auth_users :
       promote_to_admin(uid, target)
       => IF ~has_role(uid, "admin")
            THEN /\ user_roles' = user_roles
                 /\ audit_logs' = audit_logs
                 /\ outcome'.result = "forbidden"
            ELSE /\ RolesOf(user_roles', target) = {"admin"}
                 /\ \A u \in Users \ {target} : RolesOf(user_roles', u) = RolesOf(user_roles, u)
                 /\ Len(audit_logs') = Len(audit_logs) + 1
                 /\ SubSeq(audit_logs', 1, Len(audit_logs)) = audit_logs
                 /\ audit_logs'[Len(audit_logs')].user_id = uid
                 /\ audit_logs'[Len(audit_logs')].entity_id = target
                 /\ outcome'.result = "ok"]_vars

C10_Witness ==
  /\ outcome = [NoOutcome EXCEPT !.op = "promote", !.arg = FirstAdmin, !.result = "forbidden"]
  /\ RolesOf(user_roles, LegacyUser) = {"admin"}
  /\ \E k \in DOMAIN audit_logs : /\ audit_logs[k].action = "PROMOTE_TO_ADMIN"
                                  /\ audit_logs[k].entity_id = LegacyUser
                                  /\ audit_logs[k].user_id = FirstAdmin

\* C11: demote with the caller as target is answered InvalidOperation ('Cannot demote
\* yourself') for every caller, also the only admin, and changes no role.
C11_SelfDemoteInvalid ==
  [][\A uid \in auth_users :
       demote_from_admin(uid, uid)
       => /\ outcome'.result = "invalid"
          /\ user_roles' = user_roles]_vars

\* C11 (amended): demote with the caller as target always fails and changes neither
\* user_roles nor audit_logs; the answer is InvalidOperation when the caller is admin,
\* also the only admin, and Forbidden when the caller is not admin.
C11_SelfDemoteFails ==
  [][\A uid \in auth_users :
       demote_from_admin(uid, uid)
       => /\ user_roles' = user_roles
          /\ audit_logs' = audit_logs
          /\ outcome'.result = IF has_role(uid, "admin") THEN "invalid" ELSE "forbidden"]_vars

C11_Witness ==
  /\ outcome = [NoOutcome EXCEPT !.op = "demote", !.arg = FirstAdmin, !.result = "invalid"]
  /\ {u \in Users : has_role(u, "admin")} = {FirstAdmin}
  /\ \E u \in auth_users : RolesOf(user_roles, u) = {"doctor"}

\* C12: every promote or demote call appends an audit entry, whether it succeeds or
\* fails, and a call that fails changes no role.
C12_EveryCallAudited ==
  [][\A uid \in Users \cup {NoUser}, target \in auth_users :
       (promote_to_admin(uid, target) \/ demote_from_admin(uid, target))
       => /\ Len(audit_logs') = Len(audit_logs) + 1
          /\ audit_logs'[Len(audit_logs')].user_id = uid
          /\ audit_logs'[Len(audit_logs')].entity_id = target
          /\ (outcome'.result # "ok" => user_roles' = user_roles)]_vars

\* C13: starting with at least one admin, no sequence or interleaving of account
\* creations, promote calls and demote calls, two admins demoting each other at the
\* same time included, reaches a state in which no user holds role admin.
C13_AlwaysAnAdmin ==
  \E u \in Users : has_role(u, "admin")

\* C14: demote by an admin on a target other than the caller makes the target doctor
\* only if it was admin; a target that was not admin or has no role row leaves
\* user_roles unchanged; either way exactly one audit entry with actor = caller and
\* entity = target is appended.
C14_Demote ==
  [][\A uid \in Users, target \in auth_users :
       (has_role(uid, "admin") /\ target # uid /\ demote_from_admin(uid, target))
       => /\ IF has_role(target, "admin")
               THEN /\ RolesOf(user_roles', target) = {"doctor"}
                    /\ \A u \in Users \ {target} :
                          RolesOf(user_roles', u) = RolesOf(user_roles, u)
               ELSE user_roles' = user_roles
          /\ Len(audit_logs') = Len(audit_logs) + 1
          /\ SubSeq(audit_logs', 1, Len(audit_logs)) = audit_logs
          /\ audit_logs'[Len(audit_logs')].user_id = uid
          /\ audit_logs'[Len(audit_logs')].entity_id = target
          /\ outcome'.result = "ok"]_vars

C14_Witness ==
  /\ Len(audit_logs) = 3
  /\ audit_logs[1].action = "PROMOTE_TO_ADMIN" /\ audit_logs[1].entity_id = "u2"
  /\ audit_logs[2].action = "DEMOTE_FROM_ADMIN" /\ audit_logs[2].entity_id = "u2"
  /\ audit_logs[3].action = "DEMOTE_FROM_ADMIN" /\ audit_logs[3].entity_id = LegacyUser
  /\ RolesOf(user_roles, "u2") = {"doctor"}
  /\ RolesOf(user_roles, LegacyUser) = {}
  /\ outcome.op = "demote" /\ outcome.result = "ok"

\* C15: after any sequence of account creations, promote calls and demote calls every
\* user that has a role has exactly one role row, doctor or admin, and a user's role
\* changes only in an account creation, a promote or a demote.
C15_OneRolePerUser ==
  \A u \in Users :
     /\ Cardinality({r \in user_roles : r.user_id = u}) <= 1
     /\ RolesOf(user_roles, u) \subseteq {"doctor", "admin"}

C15_RoleChangesOnlyByRegistry ==
  \A u \in Users :
     RolesOf(user_roles', u) # RolesOf(user_roles, u)
     => \/ \E n \in NameArg, r \in RoleArg : SignUp(u, [full_name |-> n, role |-> r])
        \/ \E uid \in Users : promote_to_admin(uid, u)
        \/ \E uid \in Users : demote_from_admin(uid, u)

C15_RoleRegistry == []C15_OneRolePerUser /\ [][C15_RoleChangesOnlyByRegistry]_vars

C15_Witness ==
  /\ \A u \in Users : Cardinality({r \in user_roles : r.user_id = u}) = 1
  /\ RolesOf(user_roles, "u2") = {"doctor"}
  /\ RolesOf(user_roles, LegacyUser) = {"admin"}
  /\ \E k \in DOMAIN audit_logs : audit_logs[k].action = "DEMOTE_FROM_ADMIN"
  /\ \E k \in DOMAIN audit_logs : audit_logs[k].entity_id = LegacyUser

\* C16: in a direct scan of the normalized tag T, a found patient with tag T gets the
\* startSession call and no patient is created; when none is found exactly one patient
\* with tag T is created and gets the startSession call; startSession is not called
\* before the lookup, and in the create branch the insert, has succeeded.
C16_Lookup(t) ==
  LET T == scan[t].scannedId
      rows == {row \in patients : row.caretag_id = T}
  IN (ScanLookup(t, TRUE) /\ scan[t].expectedCaretagId = NullTag)
     => /\ patients' = patients
        /\ call'[t].pc = "idle"
        /\ Cardinality(rows) = 1
             => /\ scan'[t].pc = "session"
                /\ {scan'[t].patient} = {row.id : row \in rows}
                /\ ~scan'[t].isNewPatient
        /\ rows = {} => scan'[t].pc = "creating"

C16_Insert(t) ==
  \A ok \in BOOLEAN :
     ScanInsert(t, ok)
     => /\ call'[t].pc = "idle"
        /\ IF ok
             THEN /\ \E row \in patients' \ patients :
                        /\ patients' = patients \cup {row}
                        /\ row.caretag_id = scan[t].scannedId
                        /\ row.id = scan'[t].patient
                        /\ row.id \notin {r.id : r \in patients}
                  /\ scan'[t].pc = "session"
             ELSE /\ patients' = patients
                  /\ scan'[t].pc = "idle" /\ scan'[t].result = "error"

C16_Call(t) ==
  (call[t].pc = "idle" /\ call'[t].pc = "insert" /\ scan[t].expectedCaretagId = NullTag)
  => /\ scan[t].pc = "session"
     /\ call'[t].patient = scan[t].patient
     /\ \E row \in patients : row.id = scan[t].patient /\ row.caretag_id = scan[t].scannedId
     /\ patients' = patients

C17_OnePatient ==
  /\ \A r1, r2 \in patients : r1.caretag_id = r2.caretag_id => r1 = r2
  /\ \A t1, t2 \in Tabs :
       (scan[t1].result = "ok" /\ scan[t2].result = "ok"
          /\ scan[t1].scannedId = scan[t2].scannedId)
       => scan[t1].patient = scan[t2].patient

C17_Conflict ==
  \A t \in Tabs :
     ( /\ scan[t].pc = "creating"
       /\ \E row \in patients : row.caretag_id = scan[t].scannedId
       /\ scan'[t].pc # "creating" )
     => /\ patients' = patients
        /\ scan'[t].result # "error"

C17_OnePatientPerTag == []C17_OnePatient /\ [][C17_Conflict]_vars

\* C18: tags are trimmed and upper-cased before every lookup, comparison and creation:
\* normalization is idempotent, readings that differ only in case or surrounding
\* whitespace give the same identifier on every reader, a created patient stores the
\* normalized form, and the comparison with the expected tag ignores case and
\* surrounding whitespace.
C18_Begin(t) ==
  \A uid \in Users, read \in ScanReads, params \in PageParams :
     ScanBegin(t, uid, read[1], read[2], params[1], params[2])
     => /\ scan'[t].scannedId = NormalizeTag(read[2])
        /\ NormalizeTag(scan'[t].scannedId) = scan'[t].scannedId

C18_Compare(t) ==
  \A ok \in BOOLEAN :
     ( /\ ScanLookup(t, ok)
       /\ scan[t].expectedCaretagId # NullTag
       /\ NormalizeTag(scan[t].expectedCaretagId) = scan[t].scannedId )
     => scan'[t].result # "mismatch"

C18_Stored(t) ==
  \A row \in patients' \ patients :
     row.caretag_id = scan[t].scannedId /\ NormalizeTag(row.caretag_id) = row.caretag_id

C18_TagsNormalized ==
  [][C18_Begin(OneTab) /\ C18_Compare(OneTab) /\ C18_Stored(OneTab)]_vars

\* C19: session rows are never deleted: over startSession, endSession, scans and
\* patient creation the set of session ids only grows and every session keeps its
\* doctor and its patient.
C19_SessionsNeverDeleted ==
  [][/\ Len(access_sessions') >= Len(access_sessions)
     /\ \A i \in Ids : /\ access_sessions'[i].doctor_id = access_sessions[i].doctor_id
                       /\ access_sessions'[i].patient_id = access_sessions[i].patient_id
                       /\ access_sessions'[i].started_at = access_sessions[i].started_at]_vars

C19_Witness ==
  /\ Len(access_sessions) = 2
  /\ access_sessions[1].status = "completed"
  /\ access_sessions[1].notes = NullText
  /\ access_sessions[2].status = "active"
  /\ access_sessions[1].doctor_id = access_sessions[2].doctor_id
  /\ access_sessions[1].patient_id # access_sessions[2].patient_id
  /\ scan[OneTab].result = "ok" /\ scan[OneTab].isNewPatient
  /\ Cardinality(patients) = 2

\* C20: the audit log is append-only: promote, demote and doctor verification only
\* insert an entry that carries actor, action, target entity and details; no entry is
\* updated or deleted, so the log of every state is a prefix of the log of every later
\* state.
C20_AuditAppendOnly ==
  [][/\ Len(audit_logs') \in {Len(audit_logs), Len(audit_logs) + 1}
     /\ SubSeq(audit_logs', 1, Len(audit_logs)) = audit_logs
     /\ Len(audit_logs') = Len(audit_logs) + 1
          => LET new == audit_logs'[Len(audit_logs')]
             IN /\ DOMAIN new = {"user_id", "action", "entity_type", "entity_id", "details"}
                /\ new.action \in {"PROMOTE_TO_ADMIN", "DEMOTE_FROM_ADMIN",
                                   "doctor_verification_verified",
                                   "doctor_verification_rejected"}
                /\ new.entity_id \in auth_users]_vars

C20_Witness ==
  /\ Len(audit_logs) = 3
  /\ audit_logs[1].action = "PROMOTE_TO_ADMIN"
  /\ audit_logs[2].action = "doctor_verification_rejected"
  /\ audit_logs[3].action = "DEMOTE_FROM_ADMIN"
  /\ audit_logs[1].entity_id = audit_logs[3].entity_id

\* C21: the row policies of access_sessions. An insert is stored only when the
\* row's doctor_id is the caller and the caller holds role doctor (so never for
\* an admin, never on behalf of another doctor); an update changes only rows
\* whose doctor_id is the caller; a doctor reads exactly their own sessions
\* and an admin reads every session.
C21_Insert ==
  \A uid \in Users \cup {NoUser}, d \in Users, p \in Patients :
     InsertSession(uid, d, p) /\ access_sessions' # access_sessions =>
        /\ d = uid
        /\ \E r \in user_roles : r.user_id = uid /\ r.role = "doctor"
        /\ ~\E r \in user_roles : r.user_id = uid /\ r.role = "admin"

C21_Update ==
  \A uid \in Users \cup {NoUser}, id \in 1..MaxSessions :
     endSession(uid, id, Undefined, TRUE) =>
        \A i \in Ids : access_sessions'[i] # access_sessions[i] =>
                          access_sessions[i].doctor_id = uid

C21_Select ==
  \A u \in Users, i \in Ids :
     LET admin == \E r \in user_roles : r.user_id = u /\ r.role = "admin"
     IN /\ admin => SessionSelectPolicy(u, access_sessions[i])
        /\ ~admin => (SessionSelectPolicy(u, access_sessions[i])
                        <=> access_sessions[i].doctor_id = u)

C21_SessionPolicies == []C21_Select /\ [][C21_Insert /\ C21_Update]_vars

\* an admin's insert was refused while a doctor's session is stored and another
\* one was ended
C21_Witness ==
  /\ outcome.op = "insertSession" /\ outcome.arg = FirstAdmin /\ outcome.result = "error"
  /\ \E r \in user_roles : r.user_id = FirstAdmin /\ r.role = "admin"
  /\ Len(access_sessions) < MaxSessions
  /\ \E i \in Ids : access_sessions[i].status = "completed"

\* C22: in expected-patient mode a scanned identifier that differs from the
\* expected tag ends the flow in state mismatch: no patient is looked up or
\* created, startSession is not called and the page does not navigate.
C22_MismatchStep ==
  \A t \in Tabs :
     /\ scan[t].pc = "detected"
     /\ scan[t].expectedCaretagId # NullTag
     /\ scan[t].scannedId # scan[t].expectedCaretagId
     /\ scan'[t] # scan[t]
     => /\ scan'[t] = [scan[t] EXCEPT !.pc = "idle", !.result = "mismatch",
                                      !.processing = FALSE]
        /\ scan'[t].patient = Undefined /\ ~scan'[t].isNewPatient
        /\ patients' = patients
        /\ access_sessions' = access_sessions
        /\ call' = call /\ outcome' = outcome

C22_MismatchRejected == [][C22_MismatchStep]_vars

\* the tag of a registered patient was scanned on a page that expects another
\* tag, and the flow ended in mismatch
C22_Witness ==
  /\ scan[OneTab].pc = "idle" /\ scan[OneTab].result = "mismatch"
  /\ scan[OneTab].expectedCaretagId = <<"C", "2">>
  /\ \E row \in patients : row.caretag_id = scan[OneTab].scannedId

\* C23: startSession(D, P) changes only the sessions whose doctor is D and
\* whose status is active, and adds at most the one new row: the sessions of
\* other doctors and D's completed or expired sessions keep every field.
C23_Close ==
  \A t \in Tabs, uid \in Users, p \in Patients, ok \in BOOLEAN :
     StartSessionClose(t, uid, p, ok) =>
        /\ Len(access_sessions') = Len(access_sessions)
        /\ \A i \in Ids :
              access_sessions'[i] # access_sessions[i] =>
                 /\ access_sessions[i].doctor_id = uid
                 /\ access_sessions[i].status = "active"

C23_InsertStep ==
  \A t \in Tabs, ok \in BOOLEAN :
     StartSessionInsert(t, ok) =>
        /\ Len(access_sessions') \in {Len(access_sessions), Len(access_sessions) + 1}
        /\ \A i \in Ids : access_sessions'[i] = access_sessions[i]
        /\ Len(access_sessions') > Len(access_sessions) =>
              /\ access_sessions'[Len(access_sessions')].doctor_id = call[t].user
              /\ access_sessions'[Len(access_sessions')].patient_id = call[t].patient

C23_StartSessionFrame == [][C23_Close /\ C23_InsertStep]_vars

\* a doctor started a session while another doctor's session is active, and
\* that session is still active
C23_Witness ==
  /\ outcome.op = "startSession" /\ outcome.result = "ok"
  /\ \E i, j \in Ids :
        /\ j = Len(access_sessions) /\ i # j
        /\ access_sessions[i].doctor_id # access_sessions[j].doctor_id
        /\ access_sessions[i].status = "active"
        /\ access_sessions[j].status = "active"

\* C24: in every state reached through startSession and endSession a session
\* has status active exactly when its end timestamp is null, so the client
\* filter (status active and ended_at null) and the server filter (status
\* active and ended_at null or in the future) select the same sessions.
C24_ActiveIffOpen ==
  /\ \A i \in Ids :
        access_sessions[i].status = "active" <=> access_sessions[i].ended_at = NullTime
  /\ \A u \in Users, p \in Patients :
        {i \in Ids : /\ access_sessions[i].doctor_id = u
                     /\ access_sessions[i].patient_id = p
                     /\ access_sessions[i].status = "active"
                     /\ access_sessions[i].ended_at = NullTime}
        = {i \in Ids : /\ access_sessions[i].doctor_id = u
                       /\ access_sessions[i].patient_id = p
                       /\ access_sessions[i].status = "active"
                       /\ (access_sessions[i].ended_at = NullTime
                             \/ access_sessions[i].ended_at > now)}

\* a session closed by startSession in the past next to the session it opened,
\* after an endSession call
C24_Witness ==
  /\ Len(access_sessions) = 2
  /\ access_sessions[1].status = "completed" /\ access_sessions[1].ended_at < now
  /\ access_sessions[1].notes = NullText
  /\ access_sessions[2].status = "active"
  /\ outcome.op = "endSession"

\* C25: startSession does not look at the outcome of its close request: when
\* the close fails nothing is reported and the insert is still attempted, and
\* when that insert succeeds startSession reports success while the sessions
\* that were active before the call are still active.
C25_CloseFails ==
  \A t \in Tabs, uid \in Users, p \in Patients :
     StartSessionClose(t, uid, p, FALSE) =>
        /\ access_sessions' = access_sessions
        /\ outcome' = outcome
        /\ call'[t].pc = "insert" /\ call'[t].user = uid /\ call'[t].patient = p
        /\ call'[t].preActive = {i \in Ids : access_sessions[i].doctor_id = uid
                                            /\ access_sessions[i].status = "active"}

C25_InsertAfter ==
  \A t \in Tabs :
     StartSessionInsert(t, TRUE) /\ Len(access_sessions') > Len(access_sessions) =>
        /\ outcome'.op = "startSession" /\ outcome'.result = "ok"
        /\ \A i \in call[t].preActive :
              access_sessions[i].status = "active" => access_sessions'[i].status = "active"

C25_CloseOutcomeIgnored == [][C25_CloseFails /\ C25_InsertAfter]_vars

\* startSession reported success and the doctor has the new session next to
\* an older one that is still active
C25_Witness ==
  /\ outcome.op = "startSession" /\ outcome.result = "ok"
  /\ Len(access_sessions) = 2
  /\ access_sessions[1].doctor_id = access_sessions[2].doctor_id
  /\ access_sessions[1].status = "active" /\ access_sessions[2].status = "active"

\* C26: startSession is not all-or-nothing: a successful close empties the
\* doctor's set of active sessions, and when the insert then fails an error
\* is reported and nothing is restored, so the doctor has no active session.
C26_CloseDone ==
  \A t \in Tabs, uid \in Users, p \in Patients :
     StartSessionClose(t, uid, p, TRUE) =>
        \A i \in Ids : access_sessions'[i].doctor_id = uid =>
                          access_sessions'[i].status # "active"

C26_InsertFails ==
  \A t \in Tabs :
     StartSessionInsert(t, FALSE) =>
        /\ outcome'.op = "startSession" /\ outcome'.result = "error"
        /\ access_sessions' = access_sessions
        /\ call'[t].pc = "idle"

C26_CloseNotUndone == [][C26_CloseDone /\ C26_InsertFails]_vars

\* startSession reported an error although the table has room: the session
\* it closed is completed and its doctor has no active session
C26_Witness ==
  /\ outcome.op = "startSession" /\ outcome.result = "error"
  /\ Len(access_sessions) = 1
  /\ access_sessions[1].status = "completed"
  /\ \E r \in user_roles : r.user_id = access_sessions[1].doctor_id /\ r.role = "doctor"
  /\ call[OneTab].pc = "idle"

\* C27: whenever processScannedId calls startSession(P) for the normalized
\* scanned identifier T, patient P exists and its stored tag identifier is T,
\* in direct mode and in expected-patient mode alike.
C27_Call ==
  \A t \in Tabs :
     scan[t].pc = "session" /\ scan'[t].pc = "starting" =>
        /\ call'[t].patient = scan[t].patient
        /\ \E row \in patients : /\ row.id = scan[t].patient
                                 /\ row.caretag_id = scan[t].scannedId

C27_SessionForTagOwner == [][C27_Call]_vars

\* C28: on the scan page at most one scan-to-session flow is in flight: while
\* a processScannedId invocation or a demo-scan completion is between its
\* start and its end no second flow runs, and the page never has two
\* startSession calls in flight at once.
C28_OneFlowInFlight ==
  /\ ~(scan[OneTab].pc # "idle" /\ demo.pc \notin {"off", "countdown"})
  /\ ~(scan[OneTab].pc = "starting" /\ demo.pc = "starting")

\* C29: the processing guard of processScannedId is always released: an
\* invocation that acquired it ends, and whenever no invocation is running
\* (after a mismatch, a success or a thrown error) the guard is free, so the
\* next scan is processed.
C29_Released ==
  /\ scan[OneTab].processing <=> scan[OneTab].pc # "idle"
  /\ scan[OneTab].pc = "idle" =>
        ENABLED ScanBegin(OneTab, PageDoctor, "rfid", <<"C", "2">>, NullTag, Undefined)

C29_GuardReleased ==
  /\ []C29_Released
  /\ scan[OneTab].processing ~> ~scan[OneTab].processing

\* an invocation ended with a thrown error after an earlier one had started a
\* session, and the guard is free
C29_Witness ==
  /\ scan[OneTab].pc = "idle" /\ scan[OneTab].result = "error"
  /\ ~scan[OneTab].processing
  /\ Len(access_sessions) = 1

====
